---- MODULE Spec2Model ----
(***************************************************************************)
(* A model of DocTermTable (src/DocTermTable.py): a document-term count    *)
(* matrix with its vocabulary, document index, aggregate counts and the    *)
(* cached per-document Higher Criticism (HC) scores, together with the     *)
(* operations that build, realign, merge, extract, copy, collapse and      *)
(* query such tables.                                                      *)
(*                                                                         *)
(* Numbers.  Counts are naturals.  A p-value is a rational u/d kept as the *)
(* numerator u over a denominator d common to one test; NaN is the         *)
(* numerator -1.  An HC score is NaN, minus infinity, or a signed root     *)
(* sgn * sqrt(a/b) kept as the triple (sgn, a, b), so that scores are      *)
(* compared exactly.  A rank is NaN or a fraction num/den.                 *)
(*                                                                         *)
(* HC_aux (two_counts_pvals, hc_vals) is imported by the source but is not *)
(* part of it; both are modelled from the written contract: the exact      *)
(* conditional two-sample test of proportions and the HC formula.  The     *)
(* stability flag is held at its default (True) throughout.                *)
(***************************************************************************)
EXTENDS Integers, Sequences, FiniteSets, TLC

VARIABLES tbl, res, nops

vars == <<tbl, res, nops>>

----------------------------------------------------------------------------
(* Bounds of the model *)

\* table-building calls made in one run, after the two tables of Init
MaxOps == 1

\* rows a merged table may have
MaxDocs == 3

\* total count mass a merged table may have
MaxTotal == 5

----------------------------------------------------------------------------
(* Sequences and small arithmetic *)

Min2(x, y) == IF x <= y THEN x ELSE y

Max2(x, y) == IF x >= y THEN x ELSE y

RECURSIVE SumSeq(_)
SumSeq(s) == IF s = <<>> THEN 0 ELSE Head(s) + SumSeq(Tail(s))

\* list.index(w): the first position of w (1-based), 0 when w is absent
IndexOf(s, w) ==
    IF \E i \in 1..Len(s) : s[i] = w
    THEN CHOOSE i \in 1..Len(s) : s[i] = w /\ \A j \in 1..(i - 1) : s[j] # w
    ELSE 0

RECURSIVE Choose(_, _)
\* the binomial coefficient
Choose(n, k) ==
    IF k < 0 \/ k > n THEN 0
    ELSE IF k = 0 THEN 1
    ELSE (Choose(n, k - 1) * (n - k + 1)) \div k

RECURSIVE SumOver(_, _, _)
\* sum of f[k] for k in lo..hi
SumOver(f, lo, hi) == IF lo > hi THEN 0 ELSE f[lo] + SumOver(f, lo + 1, hi)

\* the sequence s without its element at position i
RemoveAt(s, i) == [j \in 1..(Len(s) - 1) |-> IF j < i THEN s[j] ELSE s[j + 1]]

RECURSIVE SortAsc(_)
\* the numbers of s in ascending order
SortAsc(s) ==
    IF s = <<>> THEN <<>>
    ELSE LET i == CHOOSE i \in 1..Len(s) : \A j \in 1..Len(s) : s[i] <= s[j]
         IN  <<s[i]>> \o SortAsc(RemoveAt(s, i))

RECURSIVE FracLess(_, _, _, _)
\* a/b < c/d for naturals a, c and positive b, d (by continued fractions)
FracLess(a, b, c, d) ==
    LET q1 == a \div b
        q2 == c \div d
        r1 == a % b
        r2 == c % d
    IN  IF q1 # q2 THEN q1 < q2
        ELSE IF r2 = 0 THEN FALSE
        ELSE IF r1 = 0 THEN TRUE
        ELSE FracLess(d, r2, b, r1)

RECURSIVE GCD(_, _)
GCD(a, b) == IF b = 0 THEN a ELSE GCD(b, a % b)

----------------------------------------------------------------------------
(* PairwiseCountTest: two_counts_pvals of HC_aux, from its contract.       *)
(* Feature i of sample 1 has c1[i] of T1 = sum(c1) occurrences, of sample  *)
(* 2 c2[i] of T2.  Under the shared-proportion null and given the feature  *)
(* total K = c1[i] + c2[i], the count in sample 1 is hypergeometric; the   *)
(* two-sided p-value sums the probabilities of the outcomes no more likely *)
(* than the observed one.  All p-values of one test share the denominator  *)
(* Choose(T1 + T2, T1).                                                    *)

\* the NaN p-value (a numerator no probability has)
NaNp == -1

\* unnormalised probability of k of the K occurrences falling in sample 1
FisherWeight(k, K, T1, N) == Choose(K, k) * Choose(N - K, T1 - k)

\* numerator of the two-sided p-value of one feature
FisherNum(a, b, T1, T2) ==
    LET K  == a + b
        N  == T1 + T2
        lo == Max2(0, T1 - (N - K))
        hi == Min2(K, T1)
        w  == [k \in lo..hi |-> FisherWeight(k, K, T1, N)]
        f  == [k \in lo..hi |-> IF w[k] <= w[a] THEN w[k] ELSE 0]
    IN  SumOver(f, lo, hi)

\* p-values of c1 against c2; a sample of zero total mass gives p = 1
two_counts_pvals(c1, c2) ==
    LET T1 == SumSeq(c1)
        T2 == SumSeq(c2)
    IN  IF T1 = 0 \/ T2 = 0
        THEN [d |-> 1, u |-> [i \in 1..Len(c1) |-> 1]]
        ELSE [d |-> Choose(T1 + T2, T1),
              u |-> [i \in 1..Len(c1) |-> FisherNum(c1[i], c2[i], T1, T2)]]

----------------------------------------------------------------------------
(* HigherCriticism: hc_vals of HC_aux, from its contract.                  *)

\* alpha = AlphaNum / AlphaDen = 0.45
AlphaNum == 45

AlphaDen == 100

HCNaN == [k |-> "nan", s |-> 0, a |-> 0, b |-> 1]

HCNegInf == [k |-> "ninf", s |-> -1, a |-> 0, b |-> 1]

HCPosInf == [k |-> "pinf", s |-> 1, a |-> 0, b |-> 1]

\* z(i) = sqrt(n) (i/n - p) / sqrt(p (1 - p)) for p = u/d, as sgn*sqrt(a/b):
\* z(i)^2 = (i d - n u)^2 / (n u (d - u)).  A zero denominator follows
\* floating-point division: -inf, +inf or NaN by the sign of the numerator.
ZScore(i, n, u, d) ==
    LET x == i * d - n * u
        A == x * x
        B == n * u * (d - u)
        g == GCD(A, B)
    IN  IF B = 0
        THEN (IF x < 0 THEN HCNegInf ELSE IF x > 0 THEN HCPosInf ELSE HCNaN)
        ELSE IF x = 0 THEN [k |-> "fin", s |-> 0, a |-> 0, b |-> 1]
        ELSE [k |-> "fin", s |-> (IF x < 0 THEN -1 ELSE 1),
              a |-> A \div g, b |-> B \div g]

\* x < y on HC scores, as floating-point comparison decides it
\* (every comparison with NaN is false)
HCLess(x, y) ==
    IF x.k = "nan" \/ y.k = "nan" THEN FALSE
    ELSE IF x.k = "ninf" THEN y.k # "ninf"
    ELSE IF y.k = "ninf" THEN FALSE
    ELSE IF y.k = "pinf" THEN x.k # "pinf"
    ELSE IF x.k = "pinf" THEN FALSE
    ELSE IF x.s # y.s THEN x.s < y.s
    ELSE IF x.s = 0 THEN FALSE
    ELSE IF x.s = 1 THEN FracLess(x.a, x.b, y.a, y.b)
    ELSE FracLess(y.a, y.b, x.a, x.b)

\* (HC score, p-value threshold) of a p-value vector pv = [d, u]:
\* NaN entries are discarded, the rest sorted ascending, z(i) taken for
\* i = 1..floor(alpha n); the score is the maximum, the threshold the
\* p-value at the first index that attains it.  No index: undefined.
hc_vals(pv) ==
    LET us == SelectSeq(pv.u, LAMBDA x : x # NaNp)
        n  == Len(us)
        ps == SortAsc(us)
        m  == (AlphaNum * n) \div AlphaDen
        z  == [i \in 1..m |-> ZScore(i, n, ps[i], pv.d)]
    IN  IF m < 1 \/ \E i \in 1..m : z[i].k = "nan"
        THEN [hc |-> HCNaN, p_thr |-> NaNp]
        ELSE LET istar == CHOOSE i \in 1..m :
                              /\ \A j \in 1..m : ~HCLess(z[i], z[j])
                              /\ \A j \in 1..(i - 1) : HCLess(z[j], z[i])
             IN  [hc |-> z[istar], p_thr |-> ps[istar]]

----------------------------------------------------------------------------
(* The table.  A table is a record                                         *)
(*   _feature_names   the vocabulary, a sequence of feature names          *)
(*   _dtm             the count matrix, a sequence of rows                 *)
(*   _doc_names       the document index: a dict kept as the sequence of   *)
(*                    its (name, row) items in insertion order, rows       *)
(*                    counted from 0 as in the source                      *)
(*   _terms_per_doc   row sums                                             *)
(*   _counts          aggregate counts (column sums)                       *)
(*   _internal_scores the cached HC score of each row against the rest     *)
(* None stands for a variable that holds no table.                         *)

None == [none |-> TRUE]

IsTable(t) == t # None

NRows(dtm) == Len(dtm)

NCols(dtm) == IF dtm = <<>> THEN 0 ELSE Len(dtm[1])

\* dtm.sum(0): column sums
ColSums(dtm) ==
    [c \in 1..NCols(dtm) |-> SumSeq([r \in 1..Len(dtm) |-> dtm[r][c]])]

\* dtm.sum(1): row sums
RowSums(dtm) == [r \in 1..Len(dtm) |-> SumSeq(dtm[r])]

\* dtm.sum(): total mass
Total(dtm) == SumSeq(RowSums(dtm))

\* "doc" + str(i)
AutoName(i) == "doc" \o ToString(i)

RECURSIVE MakeDict(_, _)
\* dict([(s, i) for i, s in enumerate(names)]), the items after those of
\* acc: a repeated name keeps its first place and takes the last row
MakeDict(names, acc) ==
    IF names = <<>> THEN acc
    ELSE LET s == Head(names)
             i == Len(acc.seen)
             p == IndexOf([j \in 1..Len(acc.items) |-> acc.items[j].name], s)
         IN  MakeDict(Tail(names),
                 [seen  |-> Append(acc.seen, s),
                  items |-> IF p = 0
                            THEN Append(acc.items, [name |-> s, row |-> i])
                            ELSE [acc.items EXCEPT ![p].row = i]])

\* list(d.keys())
Keys(d) == [j \in 1..Len(d) |-> d[j].name]

\* name in d
HasKey(d, s) == \E j \in 1..Len(d) : d[j].name = s

\* d[name]
Lookup(d, s) == d[IndexOf(Keys(d), s)].row

\* _get_Pvals(counts, within) against the aggregate counts cnt0:
\* [status, pv].  The shapes must agree; with within the candidate is
\* subtracted from the aggregate first and must leave no negative count.
get_Pvals_counts(cnt0, cnt1, within) ==
    IF Len(cnt0) # Len(cnt1)
    THEN [status |-> "AssertionError", pv |-> [d |-> 1, u |-> <<>>]]
    ELSE IF within
    THEN LET cnt2 == [i \in 1..Len(cnt0) |-> cnt0[i] - cnt1[i]]
         IN  IF \E i \in 1..Len(cnt2) : cnt2[i] < 0
             THEN [status |-> "ValueError", pv |-> [d |-> 1, u |-> <<>>]]
             ELSE [status |-> "ok", pv |-> two_counts_pvals(cnt1, cnt2)]
    ELSE [status |-> "ok", pv |-> two_counts_pvals(cnt1, cnt0)]

\* the cached scores of __compute_internal_stat: for every row of the
\* matrix, the HC score of the row within the aggregate counts
InternalScores(dtm, counts) ==
    [r \in 1..Len(dtm) |-> hc_vals(get_Pvals_counts(counts, dtm[r], TRUE).pv).hc]

\* __compute_internal_stat: row sums, aggregate counts and cached scores
\* recomputed from the current matrix
compute_internal_stat(t) ==
    [t EXCEPT !._terms_per_doc   = RowSums(t._dtm),
              !._counts          = ColSums(t._dtm),
              !._internal_scores = InternalScores(t._dtm, ColSums(t._dtm))]

\* DocTermTable(dtm, feature_names, document_names): [status, table].
\* An all-zero matrix raises ValueError.
Construct(dtm, feature_names, document_names) ==
    LET given == IF document_names = <<>>
                 THEN [i \in 1..NRows(dtm) |-> AutoName(i - 1)]
                 ELSE document_names
        names == SubSeq(given, 1, Min2(Len(given), NRows(dtm)))
        t == [_feature_names   |-> feature_names,
              _dtm             |-> dtm,
              _doc_names       |-> MakeDict(names, [seen |-> <<>>, items |-> <<>>]).items,
              _terms_per_doc   |-> <<>>,
              _counts          |-> <<>>,
              _internal_scores |-> <<>>]
    IN  IF Total(dtm) = 0
        THEN [status |-> "ValueError", table |-> None]
        ELSE [status |-> "ok", table |-> compute_internal_stat(t)]

\* change_vocabulary(new_vocabulary), in place: column i of the new matrix
\* is the old column of feature new_vocabulary[i], or zero when the old
\* vocabulary does not have it; then the derived state is recomputed
change_vocabulary(t, new_vocabulary) ==
    LET old_vocab == t._feature_names
        new_dtm ==
            [r \in 1..NRows(t._dtm) |->
                [i \in 1..Len(new_vocabulary) |->
                    LET c == IndexOf(old_vocab, new_vocabulary[i])
                    IN  IF c # 0 /\ c <= NCols(t._dtm) THEN t._dtm[r][c] ELSE 0]]
    IN  compute_internal_stat(
            [t EXCEPT !._dtm = new_dtm, !._feature_names = new_vocabulary])

\* collapse_dtm(), in place: the matrix becomes its column-sum row
collapse_dtm(t) == [t EXCEPT !._dtm = <<ColSums(t._dtm)>>]

\* copy(): a table built from the same matrix, vocabulary and names
copy(t) == Construct(t._dtm, t._feature_names, Keys(t._doc_names))

\* get_doc_as_table(doc_id): [status, table]
get_doc_as_table(t, doc_id) ==
    IF ~HasKey(t._doc_names, doc_id)
    THEN [status |-> "KeyError", table |-> None]
    ELSE IF Lookup(t._doc_names, doc_id) >= NRows(t._dtm)
    THEN [status |-> "IndexError", table |-> None]
    ELSE Construct(<<t._dtm[Lookup(t._doc_names, doc_id) + 1]>>,
                   t._feature_names, <<doc_id>>)

\* add_table(dtbl): [status, table, dtbl], dtbl being the argument as the
\* call leaves it.  With differing vocabularies the argument is realigned
\* in place and rebound to the value change_vocabulary returns, which is
\* None, so that reading its matrix raises AttributeError.
add_table(self, dtbl) ==
    IF dtbl = None
    THEN [status |-> copy(self).status, table |-> copy(self).table, dtbl |-> None]
    ELSE IF self._feature_names # dtbl._feature_names
    THEN [status |-> "AttributeError", table |-> None,
          dtbl |-> change_vocabulary(dtbl, self._feature_names)]
    ELSE LET r == Construct(self._dtm \o dtbl._dtm, self._feature_names,
                            Keys(self._doc_names) \o Keys(dtbl._doc_names))
         IN  [status |-> r.status, table |-> r.table, dtbl |-> dtbl]

\* a get_Pvals that realigns a copy of the candidate and leaves the
\* candidate itself as it was
get_Pvals_on_copy(self, dtbl) ==
    LET differ == dtbl._feature_names # self._feature_names
        d2 == IF differ THEN change_vocabulary(dtbl, self._feature_names) ELSE dtbl
        r  == get_Pvals_counts(self._counts, d2._counts, FALSE)
    IN  [status |-> r.status, pv |-> r.pv, notice |-> differ, dtbl |-> dtbl,
         v0 |-> self._feature_names, v1 |-> d2._feature_names]

\* get_Pvals(dtbl): [status, pv, notice, dtbl, v0, v1].  A candidate over
\* another vocabulary is realigned in place, with a printed warning.
\* v0 and v1 are the vocabularies of the two count vectors handed to the
\* test.
get_Pvals(self, dtbl) ==
    LET differ == dtbl._feature_names # self._feature_names
        d2 == IF differ THEN change_vocabulary(dtbl, self._feature_names) ELSE dtbl
        r  == get_Pvals_counts(self._counts, d2._counts, FALSE)
    IN  [status |-> r.status, pv |-> r.pv, notice |-> differ, dtbl |-> d2,
         v0 |-> self._feature_names, v1 |-> d2._feature_names]

\* _get_counts(dtbl, within): [status, cnt0, cnt1, notice, dtbl, v0, v1]
get_counts(self, dtbl, within) ==
    LET differ == dtbl._feature_names # self._feature_names
        d2   == IF differ THEN change_vocabulary(dtbl, self._feature_names) ELSE dtbl
        cnt1 == d2._counts
        cnt0 == IF within
                THEN [i \in 1..Len(self._counts) |-> self._counts[i] - cnt1[i]]
                ELSE self._counts
    IN  [status |-> IF \E i \in 1..Len(cnt0) : cnt0[i] < 0
                    THEN "ValueError" ELSE "ok",
         cnt0 |-> cnt0, cnt1 |-> cnt1, notice |-> differ, dtbl |-> d2,
         v0 |-> self._feature_names, v1 |-> d2._feature_names]

\* __per_doc_Pvals_LOO(dtm1): the p-values of every row of dtm1 stacked on
\* the table's matrix, each against the stacked aggregate minus the row
per_doc_Pvals_LOO_dtm(self, dtm1) ==
    LET dtm_all == dtm1 \o self._dtm
        s1 == ColSums(dtm1)
        s  == [i \in 1..Len(self._counts) |-> self._counts[i] + s1[i]]
    IN  [r \in 1..Len(dtm_all) |->
            two_counts_pvals(dtm_all[r],
                [i \in 1..Len(s) |-> s[i] - dtm_all[r][i]])]

\* per_doc_Pvals_LOO(dtbl): [pv_list, notice, dtbl]
per_doc_Pvals_LOO(self, dtbl) ==
    LET differ == dtbl._feature_names # self._feature_names
        d2 == IF differ THEN change_vocabulary(dtbl, self._feature_names) ELSE dtbl
    IN  [pv_list |-> per_doc_Pvals_LOO_dtm(self, d2._dtm),
         notice |-> differ, dtbl |-> d2]

\* the rank of HC among the scores lo_hc: [nan, num, den], rank = num/den
RankNaN == [nan |-> TRUE, num |-> 0, den |-> 1]

Rank(lo_hc, HC, within) ==
    LET w == IF within THEN 1 ELSE 0
    IN  IF Len(lo_hc) > 0
        THEN [nan |-> FALSE,
              num |-> Cardinality({i \in 1..Len(lo_hc) : HCLess(lo_hc[i], HC)}) + w,
              den |-> Len(lo_hc) + 1 - w]
        ELSE RankNaN

\* which distribution get_HC_rank_features ranks against: the cached
\* scores unless leave-one-out is asked for a candidate outside the table
UsesCache(LOO, within) == (LOO = FALSE) \/ (within = TRUE)

\* a leave-one-out list kept whole, the test sample's item included
KeepSample(pv_list) == pv_list

\* the first item of the leave-one-out list is the test sample's: dropped
DropSample(pv_list) == Tail(pv_list)

\* the p-values get_HC_rank_features starts from: [status, pv, notice,
\* dtbl, v0, v1].  With within the candidate's counts go to _get_Pvals as
\* they are; otherwise get_Pvals is called.
CandidatePvals(self, dtbl, within) ==
    IF within = TRUE
    THEN LET r == get_Pvals_counts(self._counts, dtbl._counts, TRUE)
         IN  [status |-> r.status, pv |-> r.pv, notice |-> FALSE, dtbl |-> dtbl,
              v0 |-> self._feature_names, v1 |-> dtbl._feature_names]
    ELSE get_Pvals(self, dtbl)

\* the p-values with those of the features to mask set to NaN
MaskPvals(self, pv, features_to_mask) ==
    [d |-> pv.d,
     u |-> [i \in 1..Len(pv.u) |->
              IF \E f \in 1..Len(features_to_mask) :
                    IndexOf(self._feature_names, features_to_mask[f]) = i
              THEN NaNp ELSE pv.u[i]]]

\* the features whose p-value (NaN counted as 1) is below the threshold
SignificantFeatures(self, pv, p_thr) ==
    SelectSeq([i \in 1..Len(pv.u) |->
                  IF /\ p_thr # NaNp
                     /\ (IF pv.u[i] = NaNp THEN pv.d ELSE pv.u[i]) < p_thr
                  THEN self._feature_names[i] ELSE ""],
              LAMBDA f : f # "")

\* the scores the candidate's score is ranked against
ComparisonScores(self, dtbl, LOO, within) ==
    IF UsesCache(LOO, within)
    THEN self._internal_scores
    ELSE LET loo == DropSample(per_doc_Pvals_LOO(self, dtbl).pv_list)
         IN  [r \in 1..Len(loo) |-> hc_vals(loo[r]).hc]

\* the result of get_HC_rank_features from its parts; an empty
\* leave-one-out list raises ValueError
RankResult(p, h, feat, lo_hc, LOO, within) ==
    [status |-> IF ~UsesCache(LOO, within) /\ Len(lo_hc) = 0
                THEN "ValueError" ELSE "ok",
     hc |-> h.hc,
     rank |-> IF ~UsesCache(LOO, within) /\ Len(lo_hc) = 0
              THEN RankNaN ELSE Rank(lo_hc, h.hc, within),
     feat |-> feat, lo_hc |-> lo_hc, notice |-> p.notice, dtbl |-> p.dtbl,
     v0 |-> p.v0, v1 |-> p.v1]

\* get_HC_rank_features after the p-values p of the candidate are known
RankFromPvals(self, p, LOO, features_to_mask, within) ==
    IF p.status # "ok"
    THEN [status |-> p.status, hc |-> HCNaN, rank |-> RankNaN, feat |-> <<>>,
          lo_hc |-> <<>>, notice |-> p.notice, dtbl |-> p.dtbl,
          v0 |-> p.v0, v1 |-> p.v1]
    ELSE LET masked == MaskPvals(self, p.pv, features_to_mask)
             h == hc_vals(masked)
         IN  RankResult(p, h, SignificantFeatures(self, masked, h.p_thr),
                        ComparisonScores(self, p.dtbl, LOO, within), LOO, within)

\* get_HC_rank_features(dtbl, LOO, features_to_mask, within):
\* [status, hc, rank, feat, lo_hc, notice, dtbl, v0, v1]
get_HC_rank_features(self, dtbl, LOO, features_to_mask, within) ==
    RankFromPvals(self, CandidatePvals(self, dtbl, within), LOO,
                  features_to_mask, within)

----------------------------------------------------------------------------
(* The state machine.  tbl[k] is the table the caller's variable k holds   *)
(* (None before it is bound); res describes the last call: the operation,  *)
(* its receiver and argument, whether it raised, and what it returned;     *)
(* nops counts the table-building calls made.  A run starts with a table   *)
(* constructed in variable 1 and one in variable 2, makes at most MaxOps   *)
(* table-building calls in any variables, and is closed by at most one     *)
(* query of the table in variable 1 with the table in variable 2 as the    *)
(* candidate.                                                              *)

\* the table variables the caller holds
Slots == {1, 2, 3}

Vocabs == { <<"a", "b", "c">>, <<"a", "c", "b">>, <<"a", "c", "d">> }

\* arguments of the constructor: a two-document table, a one-document
\* table within it, the same over a permuted vocabulary, a table with an
\* empty document, and an all-zero matrix
Inputs ==
    { [dtm |-> <<<<0, 0, 2>>, <<1, 1, 0>>>>, feature_names |-> <<"a", "b", "c">>,
       document_names |-> <<>>],
      [dtm |-> <<<<0, 1, 0>>>>, feature_names |-> <<"a", "b", "c">>,
       document_names |-> <<>>],
      [dtm |-> <<<<0, 1, 0>>>>, feature_names |-> <<"a", "c", "b">>,
       document_names |-> <<"x", "y">>],
      [dtm |-> <<<<0, 0, 0>>, <<1, 1, 1>>>>, feature_names |-> <<"a", "c", "d">>,
       document_names |-> <<"x", "y">>],
      [dtm |-> <<<<0, 0, 0>>>>, feature_names |-> <<"a", "b", "c">>,
       document_names |-> <<>>] }

\* document identifiers asked of get_doc_as_table
DocIds == {"doc0", "doc1", "x"}

\* count vectors handed to _get_Pvals
CountInputs == { <<0, 1, 0>>, <<0, 0, 3>>, <<1, 1>> }

\* features_to_mask
Masks == { <<>>, <<"b">> }

NoRes ==
    [op |-> "none", self |-> 0, dtbl |-> 0, dst |-> 0, status |-> "ok",
     within |-> FALSE, LOO |-> FALSE, notice |-> FALSE, counts |-> <<>>,
     v0 |-> <<>>, v1 |-> <<>>, pv |-> <<>>, hc |-> HCNaN, rank |-> RankNaN,
     feat |-> <<>>, lo_hc |-> <<>>]

\* the constructor applied to one of the inputs
Built(in) == Construct(in.dtm, in.feature_names, in.document_names)

\* the caller has constructed a table in variable 1 and one in variable 2
Init ==
    /\ \E in1, in2 \in {in \in Inputs : Built(in).status = "ok"} :
           tbl = [k \in Slots |-> IF k = 1 THEN Built(in1).table
                                  ELSE IF k = 2 THEN Built(in2).table ELSE None]
    /\ res = NoRes
    /\ nops = 0

\* tbl[k] = DocTermTable(dtm, feature_names, document_names)
DoConstruct(k, in) ==
    /\ nops < MaxOps
    /\ LET r == Construct(in.dtm, in.feature_names, in.document_names)
       IN  /\ tbl' = IF r.status = "ok" THEN [tbl EXCEPT ![k] = r.table] ELSE tbl
           /\ res' = [NoRes EXCEPT !.op = "construct", !.dst = k, !.status = r.status]
    /\ nops' = nops + 1

\* tbl[i].change_vocabulary(v)
DoChangeVocabulary(i, v) ==
    /\ nops < MaxOps
    /\ IsTable(tbl[i])
    /\ tbl' = [tbl EXCEPT ![i] = change_vocabulary(tbl[i], v)]
    /\ res' = [NoRes EXCEPT !.op = "change_vocabulary", !.self = i]
    /\ nops' = nops + 1

\* tbl[i].collapse_dtm()
DoCollapse(i) ==
    /\ nops < MaxOps
    /\ IsTable(tbl[i])
    /\ tbl' = [tbl EXCEPT ![i] = collapse_dtm(tbl[i])]
    /\ res' = [NoRes EXCEPT !.op = "collapse_dtm", !.self = i]
    /\ nops' = nops + 1

\* tbl[k] = tbl[i].copy()
DoCopy(i, k) ==
    /\ nops < MaxOps
    /\ IsTable(tbl[i])
    /\ k # i
    /\ LET r == copy(tbl[i])
       IN  /\ tbl' = IF r.status = "ok" THEN [tbl EXCEPT ![k] = r.table] ELSE tbl
           /\ res' = [NoRes EXCEPT !.op = "copy", !.self = i, !.dst = k,
                                   !.status = r.status]
    /\ nops' = nops + 1

\* tbl[k] = tbl[i].get_doc_as_table(doc_id)
DoGetDocAsTable(i, doc_id, k) ==
    /\ nops < MaxOps
    /\ IsTable(tbl[i])
    /\ k # i
    /\ LET r == get_doc_as_table(tbl[i], doc_id)
       IN  /\ tbl' = IF r.status = "ok" THEN [tbl EXCEPT ![k] = r.table] ELSE tbl
           /\ res' = [NoRes EXCEPT !.op = "get_doc_as_table", !.self = i, !.dst = k,
                                   !.status = r.status]
    /\ nops' = nops + 1

\* tbl[k] = tbl[i].add_table(tbl[j]); j = 0 passes None
DoAddTable(i, j, k) ==
    /\ nops < MaxOps
    /\ IsTable(tbl[i])
    /\ k # i /\ k # j
    /\ j # 0 => /\ IsTable(tbl[j])
                /\ NRows(tbl[i]._dtm) + NRows(tbl[j]._dtm) <= MaxDocs
                /\ Total(tbl[i]._dtm) + Total(tbl[j]._dtm) <= MaxTotal
    /\ LET r == add_table(tbl[i], IF j = 0 THEN None ELSE tbl[j])
           t1 == IF j = 0 THEN tbl ELSE [tbl EXCEPT ![j] = r.dtbl]
       IN  /\ tbl' = IF r.status = "ok" THEN [t1 EXCEPT ![k] = r.table] ELSE t1
           /\ res' = [NoRes EXCEPT !.op = "add_table", !.self = i, !.dtbl = j,
                                   !.dst = k, !.status = r.status]
    /\ nops' = nops + 1

\* tbl[i]._get_Pvals(counts, within)
DoGetPvalsCounts(i, counts, within) ==
    /\ nops <= MaxOps
    /\ IsTable(tbl[i])
    /\ LET r == get_Pvals_counts(tbl[i]._counts, counts, within)
       IN  res' = [NoRes EXCEPT !.op = "_get_Pvals", !.self = i, !.within = within,
                                !.counts = counts, !.status = r.status, !.pv = r.pv]
    /\ UNCHANGED tbl
    /\ nops' = MaxOps + 1

\* tbl[i].get_Pvals(tbl[j])
DoGetPvals(i, j) ==
    /\ nops <= MaxOps
    /\ IsTable(tbl[i]) /\ IsTable(tbl[j])
    /\ LET r == get_Pvals(tbl[i], tbl[j])
       IN  /\ tbl' = [tbl EXCEPT ![j] = r.dtbl]
           /\ res' = [NoRes EXCEPT !.op = "get_Pvals", !.self = i, !.dtbl = j,
                                   !.status = r.status, !.pv = r.pv,
                                   !.notice = r.notice, !.v0 = r.v0, !.v1 = r.v1]
    /\ nops' = MaxOps + 1

\* tbl[i]._get_counts(tbl[j], within), as two_table_test, get_ChiSquare,
\* get_KS and get_CosineSim call it before handing the pair of count
\* vectors to their statistic
DoGetCounts(i, j, within) ==
    /\ nops <= MaxOps
    /\ IsTable(tbl[i]) /\ IsTable(tbl[j])
    /\ LET r == get_counts(tbl[i], tbl[j], within)
       IN  /\ tbl' = [tbl EXCEPT ![j] = r.dtbl]
           /\ res' = [NoRes EXCEPT !.op = "_get_counts", !.self = i, !.dtbl = j,
                                   !.within = within, !.status = r.status,
                                   !.pv = IF r.status = "ok"
                                          THEN <<r.cnt0, r.cnt1>> ELSE <<>>,
                                   !.notice = r.notice, !.v0 = r.v0, !.v1 = r.v1]
    /\ nops' = MaxOps + 1

\* tbl[i].per_doc_Pvals_LOO(tbl[j])
DoPerDocPvalsLOO(i, j) ==
    /\ nops <= MaxOps
    /\ IsTable(tbl[i]) /\ IsTable(tbl[j])
    /\ LET r == per_doc_Pvals_LOO(tbl[i], tbl[j])
       IN  /\ tbl' = [tbl EXCEPT ![j] = r.dtbl]
           /\ res' = [NoRes EXCEPT !.op = "per_doc_Pvals_LOO", !.self = i, !.dtbl = j,
                                   !.pv = r.pv_list, !.notice = r.notice,
                                   !.v0 = tbl[i]._feature_names,
                                   !.v1 = r.dtbl._feature_names]
    /\ nops' = MaxOps + 1

\* tbl[i].get_HC_rank_features(tbl[j], LOO, features_to_mask, within)
DoGetHCRankFeatures(i, j, LOO, mask, within) ==
    /\ nops <= MaxOps
    /\ IsTable(tbl[i]) /\ IsTable(tbl[j])
    /\ LET r == get_HC_rank_features(tbl[i], tbl[j], LOO, mask, within)
       IN  /\ tbl' = [tbl EXCEPT ![j] = r.dtbl]
           /\ res' = [NoRes EXCEPT !.op = "get_HC_rank_features", !.self = i,
                                   !.dtbl = j, !.within = within, !.LOO = LOO,
                                   !.status = r.status, !.hc = r.hc, !.rank = r.rank,
                                   !.feat = r.feat, !.lo_hc = r.lo_hc,
                                   !.notice = r.notice, !.v0 = r.v0, !.v1 = r.v1]
    /\ nops' = MaxOps + 1

Next ==
    \/ \E k \in Slots, in \in Inputs : DoConstruct(k, in)
    \/ \E i \in Slots, v \in Vocabs : DoChangeVocabulary(i, v)
    \/ \E i \in Slots : DoCollapse(i)
    \/ \E i, k \in Slots : DoCopy(i, k)
    \/ \E i, k \in Slots, d \in DocIds : DoGetDocAsTable(i, d, k)
    \/ \E i, k \in Slots, j \in Slots \cup {0} : DoAddTable(i, j, k)
    \/ \E c \in CountInputs, w \in BOOLEAN : DoGetPvalsCounts(1, c, w)
    \/ DoGetPvals(1, 2)
    \/ \E w \in BOOLEAN : DoGetCounts(1, 2, w)
    \/ DoPerDocPvalsLOO(1, 2)
    \/ \E l, w \in BOOLEAN, m \in Masks : DoGetHCRankFeatures(1, 2, l, m, w)

Spec == Init /\ [][Next]_vars

----------------------------------------------------------------------------
(* Properties *)

\* the calls that compare a candidate table with the receiver
ComparingOps ==
    {"get_Pvals", "_get_counts", "per_doc_Pvals_LOO", "get_HC_rank_features"}

\* the calls that return a new table
DerivingOps == {"copy", "get_doc_as_table", "add_table"}

\* the HC score of the count vector c against the rest of a corpus whose
\* aggregate counts are s
RestScore(c, s) ==
    hc_vals(two_counts_pvals(c, [i \in 1..Len(s) |-> s[i] - c[i]])).hc

\* the count table t has of feature f (0 when t does not have the feature)
CountOf(t, f) ==
    IF IndexOf(t._feature_names, f) = 0 THEN 0
    ELSE t._counts[IndexOf(t._feature_names, f)]

\* C1: every table's derived state is the one recomputed from its current
\* matrix: the aggregate counts are the column sums, and the cache holds,
\* for each row of the matrix, the HC score of the row against the rest
C1_DerivedStateConsistent ==
    \A k \in Slots :
        IsTable(tbl[k]) =>
            /\ tbl[k]._counts = ColSums(tbl[k]._dtm)
            /\ Len(tbl[k]._internal_scores) = NRows(tbl[k]._dtm)
            /\ \A r \in 1..NRows(tbl[k]._dtm) :
                   tbl[k]._internal_scores[r] =
                       RestScore(tbl[k]._dtm[r], ColSums(tbl[k]._dtm))

\* C2: every table has a matrix of positive total mass, and constructing
\* one never yields a table when it raised
C2_TotalMassPositive ==
    /\ \A k \in Slots : IsTable(tbl[k]) => Total(tbl[k]._dtm) > 0
    /\ res.op = "construct" /\ res.status = "ok" => Total(tbl[res.dst]._dtm) > 0

\* C3: whenever a comparison of a candidate with a table returns, the two
\* count vectors it paired are over the same vocabulary in the same order
C3_ComparedVocabulariesAgree ==
    res.op \in ComparingOps /\ res.status = "ok" => res.v0 = res.v1

\* C4: a defined rank returned by get_HC_rank_features lies in [0, 1]
\* (stated for candidates over the table's own vocabulary, the case the
\* claim is least in doubt for)
C4_RankInUnitInterval ==
    /\ res.op = "get_HC_rank_features"
    /\ res.status = "ok"
    /\ res.v0 = res.v1
    /\ ~res.rank.nan
    => 0 <= res.rank.num /\ res.rank.num <= res.rank.den

\* C5: a table of exactly one document has an empty cache, and ranking
\* against it in internal mode returns the undefined rank without raising
C5_OneDocumentEmptyCache ==
    /\ \A k \in Slots :
           IsTable(tbl[k]) /\ NRows(tbl[k]._dtm) = 1 =>
               tbl[k]._internal_scores = <<>>
    /\ /\ res.op = "get_HC_rank_features"
       /\ ~res.LOO
       /\ NRows(tbl[1]._dtm) = 1
       /\ res.status \in {"ok", "ValueError"} \* the subset error aside
       => res.status = "ok" /\ res.rank.nan

\* C6: add_table with another table returns a table over the receiver's
\* vocabulary whose rows are the receiver's followed by the other's
\* realigned to that vocabulary (whenever those rows have any mass)
C6_MergeRealignsOther ==
    /\ res.op = "add_table"
    /\ res.dtbl # 0
    /\ Total(tbl[res.self]._dtm) + Total(tbl[res.dtbl]._dtm) > 0
    => /\ res.status = "ok"
       /\ tbl[res.dst]._feature_names = tbl[res.self]._feature_names
       /\ tbl[res.dst]._dtm = tbl[res.self]._dtm \o tbl[res.dtbl]._dtm

\* C7: every table's document index maps its names one-to-one onto the
\* rows 0..rows-1 of its matrix
C7_DocumentIndexBijective ==
    \A k \in Slots :
        IsTable(tbl[k]) =>
            /\ Len(tbl[k]._doc_names) = NRows(tbl[k]._dtm)
            /\ {tbl[k]._doc_names[n].row : n \in 1..Len(tbl[k]._doc_names)}
                   = 0..(NRows(tbl[k]._dtm) - 1)

\* the scores of every row after the first of the candidate's matrix
\* stacked on the table's, each against the stacked aggregate minus the row
FreshScores(cand, table) ==
    [r \in 1..(NRows(cand._dtm) + NRows(table._dtm) - 1) |->
        RestScore((cand._dtm \o table._dtm)[r + 1],
                  ColSums(cand._dtm \o table._dtm))]

\* C8 as claimed: in leave-one-out mode, for within false and true, the
\* rank is taken against one fresh score per document of the table, each
\* against the merged aggregate (candidate and table) minus the document
C8_LOOAlwaysFresh ==
    res.op = "get_HC_rank_features" /\ res.LOO /\ res.status = "ok" =>
        res.lo_hc = [r \in 1..NRows(tbl[1]._dtm) |->
                        RestScore(tbl[1]._dtm[r],
                                  ColSums(tbl[2]._dtm \o tbl[1]._dtm))]

\* C8 as amended: in leave-one-out mode with within false the rank is taken
\* against one fresh score for every row of the merged corpus but its
\* first (one per document of the table when the candidate has one row);
\* with within true, and without leave-one-out, against the cached scores
C8_LOOFreshOutsideTable ==
    res.op = "get_HC_rank_features" /\ res.status = "ok" =>
        res.lo_hc = IF res.LOO /\ ~res.within
                    THEN FreshScores(tbl[2], tbl[1])
                    ELSE tbl[1]._internal_scores

\* a leave-one-out ranking of a candidate outside the table returned, and
\* its fresh scores differ from the cached ones
C8_Witness ==
    /\ res.op = "get_HC_rank_features" /\ res.LOO /\ ~res.within
    /\ res.status = "ok"
    /\ Len(res.lo_hc) >= 2
    /\ res.lo_hc # tbl[1]._internal_scores

\* C9: a call with within true fails with the subset error whenever the
\* candidate counts more of some feature of the table than the table does
C9_ExceedingCandidateFails ==
    /\ (/\ res.op \in {"_get_counts", "get_HC_rank_features"}
        /\ res.within
        /\ \E f \in 1..Len(tbl[1]._feature_names) :
               CountOf(tbl[2], tbl[1]._feature_names[f]) > tbl[1]._counts[f])
       => res.status = "ValueError"
    /\ (/\ res.op = "_get_Pvals"
        /\ res.within
        /\ Len(res.counts) = Len(tbl[1]._counts)
        /\ \E f \in 1..Len(res.counts) : res.counts[f] > tbl[1]._counts[f])
       => res.status = "ValueError"

\* C10 as claimed: the comparing and deriving calls leave the receiver and
\* the candidate as they were
C10_QueriesChangeNoTable ==
    [][res'.op \in ComparingOps \cup DerivingOps \cup {"_get_Pvals"} =>
          /\ tbl'[res'.self] = tbl[res'.self]
          /\ res'.dtbl # 0 => tbl'[res'.dtbl] = tbl[res'.dtbl]]_vars

\* whether a call realigns its candidate: the candidate is over another
\* vocabulary than the receiver, and the call is not a ranking with within
RealignsCandidate(op, within, self, cand) ==
    /\ cand._feature_names # self._feature_names
    /\ op \in (ComparingOps \cup {"add_table"})
    /\ ~(op = "get_HC_rank_features" /\ within)

\* C10 as amended: the comparing and deriving calls leave the receiver as
\* it was, and the candidate too unless it is over another vocabulary, in
\* which case they leave it realigned to the receiver's vocabulary (except
\* get_HC_rank_features with within true, which leaves it as it was); no
\* call changes a table other than its receiver, its candidate and the
\* variable its result is bound to
C10_OnlyRealignmentChangesCandidate ==
    [][/\ res'.op \in ComparingOps \cup DerivingOps \cup {"_get_Pvals"} =>
              /\ tbl'[res'.self] = tbl[res'.self]
              /\ res'.dtbl # 0 =>
                     tbl'[res'.dtbl] =
                         IF RealignsCandidate(res'.op, res'.within,
                                              tbl[res'.self], tbl[res'.dtbl])
                         THEN change_vocabulary(tbl[res'.dtbl],
                                                tbl[res'.self]._feature_names)
                         ELSE tbl[res'.dtbl]
       /\ \A m \in Slots \ {res'.self, res'.dtbl, res'.dst} :
              tbl'[m] = tbl[m]]_vars

\* a comparison has realigned a candidate that was over another vocabulary
C10_Witness ==
    /\ res.op \in ComparingOps
    /\ res.notice
    /\ res.status = "ok"
    /\ tbl[2]._feature_names = tbl[1]._feature_names

====
